---- MODULE Spec2Model ----
(***************************************************************************)
(* A model of networkx_pylab_new.py: drawing a graph's nodes, edges and    *)
(* labels on the current axes of a plotting surface.                       *)
(*                                                                         *)
(* Coordinates are integers.  Corners of the view's data bounds are kept   *)
(* in hundredths (0.05*w is 5*w hundredths), so the padding is exact.      *)
(***************************************************************************)
EXTENDS Integers, Sequences, FiniteSets, TLC

\* ------------------------------------------------------------- bounds
\* coordinates range over 0..MaxCoord on each axis
MaxCoord == 1
\* artists other plotting calls may have left on the axes before a drawing
MaxForeign == 1
\* longest nodelist, edgelist or label mapping passed as an argument
MaxLen == 2

\* ---------------------------------------------------- program constants
\* padx, pady = 0.05*w, 0.05*h, in hundredths
PadPct == 5
\* p = 0.026, in thousandths
ArrowP == 26
\* node_collection.set_zorder(2)
NodeZ == 2
\* edge_collection.set_zorder(1)
EdgeZ == 1
\* alpha = 1.0, in percent
DefaultAlpha == 100

\* ------------------------------------------------------ python values
\* a node or a label: a string or an integer
S(s) == [k |-> "str", s |-> s, i |-> 0]
I(i) == [k |-> "int", s |-> "", i |-> i]

\* cb.is_string_like(label)
is_string_like(v) == v.k = "str"

\* str(label)
str(v) == IF v.k = "str" THEN v.s ELSE ToString(v.i)

\* an optional argument: None, or a given value
None == <<>>
Some(v) == <<v>>

Range(s) == {s[i] : i \in 1..Len(s)}

RECURSIVE SeqsUpTo(_, _)
\* all sequences over X of length at most n
SeqsUpTo(X, n) ==
    IF n = 0 THEN {<<>>}
    ELSE LET shorter == SeqsUpTo(X, n - 1)
         IN  shorter \cup {Append(s, x) : s \in {t \in shorter : Len(t) = n - 1}, x \in X}

Min(X) == CHOOSE a \in X : \A b \in X : a <= b
Max(X) == CHOOSE a \in X : \A b \in X : a >= b

\* ----------------------------------------------------------- the axes
\* the current axes: hold state, ticks, added collections and texts, the
\* corners of every update_datalim call and the number of autoscale_view calls
NewAxes(h) ==
    [hold |-> h, xticks |-> "auto", yticks |-> "auto", collections |-> <<>>,
     texts |-> <<>>, dataLim |-> <<>>, autoscaled |-> 0]

\* what a call gives back: the axes after it, its return value, its error
NoColl == [kind |-> "none", zorder |-> 0, pts |-> <<>>, segs |-> <<>>,
           arrows |-> <<>>, colors |-> <<>>, alpha |-> 0]
RetNone == [kind |-> "None", coll |-> NoColl, items |-> <<>>]
RetColl(c) == [kind |-> "collection", coll |-> c, items |-> <<>>]
RetItems(f) == [kind |-> "dict", coll |-> NoColl, items |-> f]
Result(ax, ret, err) == [ax |-> ax, ret |-> ret, err |-> err]

\* a faulty variant: the exception is swallowed and None comes back
RaiseSwallowed(ax, e) == Result(ax, RetNone, "none")

\* an exception leaves the call: nothing is returned
Raise(ax, e) == Result(ax, RetNone, e)

\* keyword options forwarded through **kwds, with their defaults
DefaultColor == [isStr |-> TRUE, name |-> "k", arr |-> <<>>]
DefaultKw ==
    [nodelist |-> None, edgelist |-> None, edge_color |-> DefaultColor,
     alpha |-> DefaultAlpha, labels |-> None, hold |-> None]

\* ------------------------------------------------- draw_networkx_nodes
\* the nodes drawn: nodelist, or G.nodes() when it is None
\* a faulty variant: nodelist is ignored
NodeListAll(G, kw) == G.nodes

NodeList(G, kw) == IF kw.nodelist = None THEN G.nodes ELSE kw.nodelist[1]

\* a faulty variant: the stacking order is left as it was
set_zorder_ignored(c, z) == c

\* collection.set_zorder(z)
set_zorder(c, z) == [c EXCEPT !.zorder = z]

draw_networkx_nodes(ax, G, pos, kw) ==
    LET nodelist == NodeList(G, kw)
    IN  IF \E i \in 1..Len(nodelist) : nodelist[i] \notin DOMAIN pos
        THEN Raise(ax, "KeyError")
        ELSE LET x == [i \in 1..Len(nodelist) |-> pos[nodelist[i]][1]]
                 y == [i \in 1..Len(nodelist) |-> pos[nodelist[i]][2]]
                 scatter == [NoColl EXCEPT !.kind = "scatter",
                                !.pts = [i \in 1..Len(x) |-> <<x[i], y[i]>>],
                                !.alpha = kw.alpha]
                 node_collection == set_zorder(scatter, NodeZ)
             IN  Result([ax EXCEPT !.collections = Append(@, node_collection)],
                        RetColl(node_collection), "none")

\* ------------------------------------------------- draw_networkx_edges
\* colorConverter.to_rgba(edge_color, alpha) of a color name
to_rgba(name, alpha) == [name |-> name, alpha |-> alpha]

\* a faulty variant: edgelist is ignored
EdgeListFromGraph(G, kw) == G.edges

\* the edges drawn: edgelist, or G.edges() when it is None
EdgeList(G, kw) == IF kw.edgelist = None THEN G.edges ELSE kw.edgelist[1]

\* an edge with an endpoint that pos lacks
MissingEndpoint(edgelist, pos) ==
    \E i \in 1..Len(edgelist) :
        edgelist[i][1] \notin DOMAIN pos \/ edgelist[i][2] \notin DOMAIN pos

\* a faulty variant: both axes padded by 0.05*w
CornersPadByWidth(head, tail) ==
    LET xx   == {p[1] : p \in Range(head \o tail)}
        yy   == {p[2] : p \in Range(head \o tail)}
        w    == Max(xx) - Min(xx)
    IN  << <<100 * Min(xx) - PadPct * w, 100 * Min(yy) - PadPct * w>>,
           <<100 * Max(xx) + PadPct * w, 100 * Max(yy) + PadPct * w>> >>

\* the two corners handed to ax.update_datalim, in hundredths
Corners(head, tail) ==
    LET xx   == {p[1] : p \in Range(head \o tail)}
        yy   == {p[2] : p \in Range(head \o tail)}
        minx == Min(xx)
        maxx == Max(xx)
        miny == Min(yy)
        maxy == Max(yy)
        w    == maxx - minx
        h    == maxy - miny
        padx == PadPct * w
        pady == PadPct * h
    IN  << <<100 * minx - padx, 100 * miny - pady>>,
           <<100 * maxx + padx, 100 * maxy + pady>> >>

\* one FancyArrow from src towards dst, shortened by p along the unit vector
\* (dx, dy) / sqrt(dx*dx + dy*dy); nan when that length is zero
ArrowOf(src, dst) ==
    LET dx == dst[1] - src[1]
        dy == dst[2] - src[2]
    IN  [src |-> src, dx |-> dx, dy |-> dy, p |-> ArrowP,
         nan |-> (dx * dx + dy * dy = 0)]

\* draw_networkx_edges once every endpoint of edgelist is known to be in pos
EdgesBuild(ax, G, pos, kw, fp, edgelist) ==
    LET head == [i \in 1..Len(edgelist) |-> pos[edgelist[i][1]]]
        tail == [i \in 1..Len(edgelist) |-> pos[edgelist[i][2]]]
        edge_pos == [i \in 1..Len(edgelist) |-> <<head[i], tail[i]>>]
        ec == kw.edge_color
        perEdge == ~ec.isStr /\ Len(ec.arr) = Len(edge_pos)
        \* to_rgba of an array that is no single color fails
        badColor == ~ec.isStr /\ ~perEdge
        edge_colors == IF perEdge THEN None ELSE <<to_rgba(ec.name, kw.alpha)>>
        arrows == [i \in 1..Len(edge_pos) |-> ArrowOf(edge_pos[i][1], edge_pos[i][2])]
        divByZero == G.directed /\ \E i \in 1..Len(arrows) : arrows[i].nan
        built == IF ~G.directed
                 THEN [NoColl EXCEPT !.kind = "lines", !.segs = edge_pos,
                          !.colors = edge_colors, !.alpha = kw.alpha]
                 ELSE [NoColl EXCEPT !.kind = "poly", !.arrows = arrows,
                          !.colors = edge_colors]
        edge_collection == set_zorder(built, EdgeZ)
    IN  IF badColor THEN Raise(ax, "ValueError")
        ELSE IF divByZero /\ fp = "raise" THEN Raise(ax, "FloatingPointError")
        ELSE Result([ax EXCEPT !.dataLim = Append(@, Corners(head, tail)),
                               !.autoscaled = @ + 1,
                               !.collections = Append(@, edge_collection)],
                    RetColl(edge_collection), "none")

\* a faulty variant: the edges before the first missing endpoint are drawn
draw_networkx_edges_eager(ax, G, pos, kw, fp) ==
    LET edgelist == EdgeList(G, kw)
        bad == {i \in 1..Len(edgelist) : MissingEndpoint(<<edgelist[i]>>, pos)}
        done == IF bad = {} THEN Len(edgelist) ELSE Min(bad) - 1
        drawn == EdgesBuild(ax, G, pos, kw, fp, SubSeq(edgelist, 1, done))
    IN  IF edgelist = <<>> THEN Result(ax, RetNone, "none")
        ELSE IF bad # {} THEN Raise(IF done = 0 THEN ax ELSE drawn.ax, "KeyError")
        ELSE drawn

draw_networkx_edges(ax, G, pos, kw, fp) ==
    LET edgelist == EdgeList(G, kw)
    IN  IF edgelist = <<>> THEN Result(ax, RetNone, "none")
        ELSE IF MissingEndpoint(edgelist, pos) THEN Raise(ax, "KeyError")
        ELSE EdgesBuild(ax, G, pos, kw, fp, edgelist)

\* ------------------------------------------------ draw_networkx_labels
\* the label mapping: labels, or every node of G mapped to itself
LabelMap(G, kw) ==
    IF kw.labels = None THEN [n \in Range(G.nodes) |-> n] ELSE kw.labels[1]

\* a faulty variant: no str() of a label that is no string
TextOfNoStr(n, label, pos) == [x |-> pos[n][1], y |-> pos[n][2], s |-> label.s]

\* the text placed for key n: ax.text(x, y, label) after the str() coercion
TextOf(n, label, pos) ==
    [x |-> pos[n][1], y |-> pos[n][2],
     s |-> IF ~is_string_like(label) THEN str(label) ELSE label.s]

\* order is the order in which labels.items() yields the keys
draw_networkx_labels(ax, G, pos, kw, order) ==
    LET labels == LabelMap(G, kw)
        bad == {i \in 1..Len(order) : order[i] \notin DOMAIN pos}
        done == IF bad = {} THEN Len(order) ELSE Min(bad) - 1
        placed == [i \in 1..done |-> TextOf(order[i], labels[order[i]], pos)]
        text_items == [n \in {order[i] : i \in 1..done} |-> TextOf(n, labels[n], pos)]
        ax2 == [ax EXCEPT !.texts = @ \o placed]
    IN  IF bad = {} THEN Result(ax2, RetItems(text_items), "none")
        ELSE Raise(ax2, "KeyError")

\* ------------------------------------------------------- draw_networkx
\* (draw_if_interactive() redraws the figure and changes nothing kept here)
draw_networkx(ax, G, pos, with_labels, kw, order, fp) ==
    LET n == draw_networkx_nodes(ax, G, pos, kw)
        e == draw_networkx_edges(n.ax, G, pos, kw, fp)
        l == draw_networkx_labels(e.ax, G, pos, kw, order)
    IN  IF n.err # "none" THEN Raise(n.ax, n.err)
        ELSE IF e.err # "none" THEN Raise(e.ax, e.err)
        ELSE IF with_labels
             THEN (IF l.err # "none" THEN Raise(l.ax, l.err)
                   ELSE Result(l.ax, RetNone, "none"))
             ELSE Result(e.ax, RetNone, "none")

\* ---------------------------------------------------------------- draw
\* pylab.hold(b)
hold(ax, b) == [ax EXCEPT !.hold = b]

\* a faulty variant: no hold(b) in the except branch
draw_no_restore_on_error(ax, G, posArg, with_labels, kw, order, fp, layout) ==
    LET pos == IF posArg = None THEN layout ELSE posArg[1]
        b == ax.hold
        h == kw.hold
        ax1 == IF h # None THEN hold(ax, h[1]) ELSE ax
        ax2 == [ax1 EXCEPT !.xticks = "none", !.yticks = "none"]
        r == draw_networkx(ax2, G, pos, with_labels, kw, order, fp)
    IN  IF r.err # "none" THEN Raise(r.ax, r.err)
        ELSE Result(hold(r.ax, b), RetNone, "none")

\* layout is what spring_layout(G) returns when pos is None
draw(ax, G, posArg, with_labels, kw, order, fp, layout) ==
    LET pos == IF posArg = None THEN layout ELSE posArg[1]
        b == ax.hold
        h == kw.hold
        ax1 == IF h # None THEN hold(ax, h[1]) ELSE ax
        ax2 == [ax1 EXCEPT !.xticks = "none", !.yticks = "none"]
        r == draw_networkx(ax2, G, pos, with_labels, kw, order, fp)
    IN  IF r.err # "none" THEN Raise(hold(r.ax, b), r.err)
        ELSE Result(hold(r.ax, b), RetNone, "none")

\* ------------------------------------------------------------- inputs
Letters == <<S("A"), S("B"), S("C")>>
Mixed == <<I(1), S("1")>>
NodeLists == {Letters, Mixed}

\* the first m edges of the path through ns; a graph has no edge or all of them
Path(ns, m) == [i \in 1..m |-> <<ns[i], ns[i + 1]>>]

Graphs ==
    UNION {{[nodes |-> ns, edges |-> Path(ns, m), directed |-> d] :
               m \in {0, Len(ns) - 1}, d \in BOOLEAN} : ns \in NodeLists}

Coords == (0..MaxCoord) \X (0..MaxCoord)

\* position mappings: the first node at the origin, at most one node missing
PosMaps(G) ==
    LET ns == Range(G.nodes)
    IN  {p \in UNION {[D -> Coords] : D \in {E \in SUBSET ns : Cardinality(ns \ E) <= 1}} :
            G.nodes[1] \in DOMAIN p => p[G.nodes[1]] = <<0, 0>>}

\* what spring_layout(G) may return: the nodes on a grid, by rows or by columns
spring_layout(G) ==
    LET n == MaxCoord + 1
        byRows == [i \in 1..Len(G.nodes) |-> <<(i - 1) % n, ((i - 1) \div n) % n>>]
    IN  {[v \in Range(G.nodes) |-> byRows[CHOOSE i \in 1..Len(G.nodes) : G.nodes[i] = v]],
         [v \in Range(G.nodes) |->
             LET c == byRows[CHOOSE i \in 1..Len(G.nodes) : G.nodes[i] = v]
             IN  <<c[2], c[1]>>]}

Injective(s) == \A i, j \in 1..Len(s) : s[i] = s[j] => i = j

NodeListArgs(G) ==
    {None} \cup {Some(s) : s \in {q \in SeqsUpTo(Range(G.nodes), MaxLen) : Injective(q)}}

EdgeListArgs(G) ==
    {None} \cup {Some(s) : s \in SeqsUpTo(Range(Path(G.nodes, Len(G.nodes) - 1)), MaxLen)}

ColorArgs ==
    {DefaultColor} \cup
    {[isStr |-> FALSE, name |-> "", arr |-> a] : a \in {<<"r">>, <<"r", "g">>}}

\* label mappings: every key labelled by an integer, or every key by a string
LabelArgs(G) ==
    {None} \cup
    {Some([n \in D |-> IF ints THEN I(CHOOSE i \in 1..Len(G.nodes) : G.nodes[i] = n)
                                ELSE S("x")]) :
        D \in {E \in SUBSET Range(G.nodes) : Cardinality(E) <= MaxLen}, ints \in BOOLEAN}

Reverse(s) == [i \in 1..Len(s) |-> s[Len(s) + 1 - i]]

\* orders in which a dict with these keys may yield them
Orders(G, keys) ==
    LET asc == SelectSeq(G.nodes, LAMBDA n : n \in keys)
    IN  {asc, Reverse(asc)}

\* numpy's error mode decides what a division by zero does
FpModes(G) == IF G.directed THEN {"nan", "raise"} ELSE {"nan"}

\* ---------------------------------------------------------------- state
VARIABLES G, pos, ax, last

vars == <<G, pos, ax, last>>

Foreign == [NoColl EXCEPT !.kind = "other"]

Idle ==
    [op |-> "idle", kw |-> DefaultKw, with_labels |-> FALSE, pos |-> <<>>,
     ret |-> RetNone, err |-> "none", pre |-> NewAxes(TRUE)]

Returned(op, kw, wl, p, r) ==
    [op |-> op, kw |-> kw, with_labels |-> wl, pos |-> p,
     ret |-> r.ret, err |-> r.err, pre |-> ax]

\* the axes hold nothing this module drew
Fresh ==
    /\ \A i \in 1..Len(ax.collections) : ax.collections[i].kind = "other"
    /\ ax.texts = <<>>
    /\ ax.dataLim = <<>>
    /\ ax.xticks = "auto"

Init ==
    /\ G \in Graphs
    /\ pos \in PosMaps(G)
    /\ ax = NewAxes(TRUE)
    /\ last = Idle

\* the caller is between two calls on axes ready for a drawing
Ready == last.op = "idle" /\ Fresh

DrawNodes ==
    /\ Ready
    /\ \E nl \in NodeListArgs(G) :
        LET kw == [DefaultKw EXCEPT !.nodelist = nl]
            r == draw_networkx_nodes(ax, G, pos, kw)
        IN  ax' = r.ax /\ last' = Returned("nodes", kw, FALSE, pos, r)
    /\ UNCHANGED <<G, pos>>

DrawEdges ==
    /\ Ready
    /\ \E el \in EdgeListArgs(G), ec \in ColorArgs, fp \in FpModes(G) :
        LET kw == [DefaultKw EXCEPT !.edgelist = el, !.edge_color = ec]
            r == draw_networkx_edges(ax, G, pos, kw, fp)
        IN  ax' = r.ax /\ last' = Returned("edges", kw, FALSE, pos, r)
    /\ UNCHANGED <<G, pos>>

DrawLabels ==
    /\ Ready
    /\ \E lb \in LabelArgs(G) :
        LET kw == [DefaultKw EXCEPT !.labels = lb]
        IN  \E order \in Orders(G, DOMAIN LabelMap(G, kw)) :
            LET r == draw_networkx_labels(ax, G, pos, kw, order)
            IN  ax' = r.ax /\ last' = Returned("labels", kw, FALSE, pos, r)
    /\ UNCHANGED <<G, pos>>

DrawNetworkx ==
    /\ Ready
    /\ \E el \in EdgeListArgs(G), wl \in BOOLEAN, fp \in FpModes(G) :
        LET kw == [DefaultKw EXCEPT !.edgelist = el]
        IN  \E order \in IF wl THEN Orders(G, DOMAIN LabelMap(G, kw)) ELSE {<<>>} :
            LET r == draw_networkx(ax, G, pos, wl, kw, order, fp)
            IN  ax' = r.ax /\ last' = Returned("networkx", kw, wl, pos, r)
    /\ UNCHANGED <<G, pos>>

Draw ==
    /\ Ready
    /\ \E h \in {None, Some(TRUE), Some(FALSE)}, wl \in BOOLEAN, fp \in FpModes(G),
          posArg \in {None, Some(pos)} :
        \E layout \in IF posArg = None THEN spring_layout(G) ELSE {pos} :
            LET kw == [DefaultKw EXCEPT !.hold = h]
            IN  \E order \in IF wl THEN Orders(G, DOMAIN LabelMap(G, kw)) ELSE {<<>>} :
                LET r == draw(ax, G, posArg, wl, kw, order, fp, layout)
                IN  ax' = r.ax /\ last' = Returned("draw", kw, wl, layout, r)
    /\ UNCHANGED <<G, pos>>

\* the caller takes the result and goes on
Return ==
    /\ last.op # "idle"
    /\ last' = Idle
    /\ UNCHANGED <<G, pos, ax>>

\* pylab.hold(b), called by the user between drawings
UserHold ==
    /\ Ready
    /\ \E b \in BOOLEAN : b # ax.hold /\ ax' = hold(ax, b)
    /\ UNCHANGED <<G, pos, last>>

\* some other plotting call leaves an artist on the axes
UserPlot ==
    /\ Ready
    /\ Len(ax.collections) < MaxForeign
    /\ ax' = [ax EXCEPT !.collections = Append(@, Foreign)]
    /\ UNCHANGED <<G, pos, last>>

\* pylab.cla(): the axes are cleared, the hold state stays
UserCla ==
    /\ last.op = "idle"
    /\ ~Fresh
    /\ ax' = NewAxes(ax.hold)
    /\ UNCHANGED <<G, pos, last>>

Next ==
    \/ DrawNodes
    \/ DrawEdges
    \/ DrawLabels
    \/ DrawNetworkx
    \/ Draw
    \/ Return
    \/ UserHold
    \/ UserPlot
    \/ UserCla

Spec == Init /\ [][Next]_vars

\* ---------------------------------------------------------- properties
\* what the last call was given
LastNodeList == IF last.kw.nodelist = None THEN G.nodes ELSE last.kw.nodelist[1]
LastEdgeList == IF last.kw.edgelist = None THEN G.edges ELSE last.kw.edgelist[1]
LastLabels ==
    IF last.kw.labels = None THEN [n \in Range(G.nodes) |-> n] ELSE last.kw.labels[1]
LastEndpoints ==
    {LastEdgeList[i][1] : i \in 1..Len(LastEdgeList)} \cup
    {LastEdgeList[i][2] : i \in 1..Len(LastEdgeList)}
Complete(p) == Range(G.nodes) \subseteq DOMAIN p
IsEdgeColl(c) == c.kind \in {"lines", "poly"}

\* C1: when draw() exits, the hold state of the axes is the one read when it
\* started, with or without a hold override, on the success path and on every
\* failure path; a failure of the delegated drawing (a position mapping that
\* lacks a node) still reaches the caller
C1_DrawRestoresHold ==
    last.op = "draw" =>
        /\ ax.hold = last.pre.hold
        /\ ~Complete(last.pos) => last.err = "KeyError"

\* C1 happens: a draw() with an override that flips the hold state fails on a
\* position mapping lacking node C, and the hold state is back
C1_Witness ==
    /\ last.op = "draw"
    /\ last.kw.hold = Some(~last.pre.hold)
    /\ G.nodes = Letters
    /\ DOMAIN last.pos = {S("A"), S("B")}
    /\ last.err = "KeyError"
    /\ ax.hold = last.pre.hold

\* C2: drawEdges on an undirected graph colors the line segments per edge
\* (edge i gets color i) when the color specification is a non-string array as
\* long as the edge list, and with one uniform color otherwise
C2_PerEdgeColors ==
    (last.op = "edges" /\ ~G.directed /\ last.ret.kind = "collection") =>
        LET ec == last.kw.edge_color
            n == Len(LastEdgeList)
        IN  IF ~ec.isStr /\ Len(ec.arr) = n
            THEN last.ret.coll.colors = [i \in 1..n |-> [name |-> ec.arr[i], alpha |-> last.kw.alpha]]
            ELSE last.ret.coll.colors = <<[name |-> ec.name, alpha |-> last.kw.alpha]>>

\* C3: drawEdges on a directed graph does not fail, and divides by no zero
\* length, when the two endpoints of an edge have the same coordinates
C3_CoincidentEndpointsGuarded ==
    (/\ last.op = "edges"
     /\ G.directed
     /\ last.kw.edge_color.isStr
     /\ LastEndpoints \subseteq DOMAIN last.pos
     /\ \E i \in 1..Len(LastEdgeList) :
           last.pos[LastEdgeList[i][1]] = last.pos[LastEdgeList[i][2]]) =>
        /\ last.err = "none"
        /\ last.ret.kind = "collection"
        /\ \A i \in 1..Len(last.ret.coll.arrows) : ~last.ret.coll.arrows[i].nan

\* C4: drawEdges with an empty edge list (an empty subset, or no subset and a
\* graph without edges) returns None without error and leaves the axes as they
\* were: no primitive added, no data bounds update, no autoscale
C4_EmptyEdgeList ==
    (/\ last.op = "edges"
     /\ \/ last.kw.edgelist = Some(<<>>)
        \/ last.kw.edgelist = None /\ G.edges = <<>>) =>
        /\ last.ret = RetNone
        /\ last.err = "none"
        /\ ax = last.pre

\* C4 happens: no subset, a graph without edges, axes that hold an artist
C4_Witness ==
    /\ last.op = "edges"
    /\ last.kw.edgelist = None
    /\ G.edges = <<>>
    /\ Len(last.pre.collections) > 0
    /\ last.ret = RetNone

\* C5: a drawing operation that refers to a node without a position fails with
\* a lookup error and returns nothing: drawNodes for a node of the subset,
\* drawEdges for either endpoint of an edge of the subset, drawLabels for a key
\* of the label mapping
C5_MissingPositionFails ==
    /\ (last.op = "nodes" /\ ~(Range(LastNodeList) \subseteq DOMAIN last.pos)) =>
           last.err = "KeyError" /\ last.ret = RetNone
    /\ (last.op = "edges" /\ ~(LastEndpoints \subseteq DOMAIN last.pos)) =>
           last.err = "KeyError" /\ last.ret = RetNone
    /\ (last.op = "labels" /\ ~(DOMAIN LastLabels \subseteq DOMAIN last.pos)) =>
           last.err = "KeyError" /\ last.ret = RetNone

\* C5 happens: drawEdges finds the first endpoint of its first edge, misses the
\* second one, and fails
C5_Witness ==
    /\ last.op = "edges"
    /\ Len(LastEdgeList) > 0
    /\ LastEdgeList[1][1] \in DOMAIN last.pos
    /\ LastEdgeList[1][2] \notin DOMAIN last.pos
    /\ last.err = "KeyError"

\* C6: after drawEdges on a non-empty edge list the corners given to the data
\* bounds are (minx - 0.05w, miny - 0.05h) and (maxx + 0.05w, maxy + 0.05h) over
\* all endpoints of the drawn edges (in hundredths); A:(0,0), B:(1,0), C:(0,1)
\* with edges (A,B),(B,C) give [-0.05,1.05] x [-0.05,1.05]
C6_PaddedBounds ==
    (last.op = "edges" /\ last.ret.kind = "collection") =>
        LET pts  == {last.pos[n] : n \in LastEndpoints}
            minx == Min({q[1] : q \in pts})
            maxx == Max({q[1] : q \in pts})
            miny == Min({q[2] : q \in pts})
            maxy == Max({q[2] : q \in pts})
            got  == ax.dataLim[Len(ax.dataLim)]
        IN  /\ Len(ax.dataLim) = Len(last.pre.dataLim) + 1
            /\ ax.autoscaled = last.pre.autoscaled + 1
            /\ got[1] = <<100 * minx - 5 * (maxx - minx), 100 * miny - 5 * (maxy - miny)>>
            /\ got[2] = <<100 * maxx + 5 * (maxx - minx), 100 * maxy + 5 * (maxy - miny)>>
            /\ (/\ LastEdgeList = <<<<S("A"), S("B")>>, <<S("B"), S("C")>>>>
                /\ last.pos[S("A")] = <<0, 0>>
                /\ last.pos[S("B")] = <<1, 0>>
                /\ last.pos[S("C")] = <<0, 1>>) => got = << <<-5, -5>>, <<105, 105>> >>

\* C6 happens: the example of the specification has been drawn
C6_Witness ==
    /\ last.op = "edges"
    /\ last.ret.kind = "collection"
    /\ LastEdgeList = <<<<S("A"), S("B")>>, <<S("B"), S("C")>>>>
    /\ last.pos = (S("A") :> <<0, 0>>) @@ (S("B") :> <<1, 0>>) @@ (S("C") :> <<0, 1>>)
    /\ ax.dataLim = << << <<-5, -5>>, <<105, 105>> >> >>

\* C7: drawLabels creates text handles for exactly the keys of the label mapping
\* and, without a label mapping, for exactly the nodes of the graph: one handle
\* per node, at that node's coordinate, carrying the node's textual form
C7_LabelHandles ==
    (last.op = "labels" /\ Complete(last.pos)) =>
        /\ last.err = "none"
        /\ last.ret.kind = "dict"
        /\ DOMAIN last.ret.items = DOMAIN LastLabels
        /\ Len(ax.texts) = Len(last.pre.texts) + Cardinality(DOMAIN LastLabels)
        /\ last.kw.labels = None =>
              /\ DOMAIN last.ret.items = Range(G.nodes)
              /\ \A n \in Range(G.nodes) :
                    /\ last.ret.items[n].x = last.pos[n][1]
                    /\ last.ret.items[n].y = last.pos[n][2]
                    /\ last.ret.items[n].s = (IF n.k = "str" THEN n.s ELSE ToString(n.i))
                    /\ \E i \in 1..Len(ax.texts) : ax.texts[i] = last.ret.items[n]

\* C7 happens: the default labels of the graph on the nodes 1 and "1", at two
\* different places, both reading "1"
C7_Witness ==
    /\ last.op = "labels"
    /\ last.kw.labels = None
    /\ G.nodes = Mixed
    /\ Complete(last.pos)
    /\ last.pos[I(1)] # last.pos[S("1")]
    /\ last.ret.kind = "dict"
    /\ last.ret.items[I(1)].s = "1"
    /\ last.ret.items[S("1")].s = "1"

\* C8: with a complete position mapping drawNodes plots one point collection
\* whose points are the coordinates of the requested nodes, in their order (all
\* nodes of the graph without a subset), and returns it
C8_NodePoints ==
    (last.op = "nodes" /\ Complete(last.pos)) =>
        /\ last.err = "none"
        /\ last.ret.kind = "collection"
        /\ last.ret.coll.kind = "scatter"
        /\ last.ret.coll.pts = [i \in 1..Len(LastNodeList) |-> last.pos[LastNodeList[i]]]
        /\ ax.collections[Len(ax.collections)] = last.ret.coll
        /\ Cardinality({i \in 1..Len(ax.collections) : ax.collections[i].kind = "scatter"}) = 1

\* C8 happens: a subset of two nodes, given against the order of the graph,
\* at two different places
C8_Witness ==
    /\ last.op = "nodes"
    /\ Complete(last.pos)
    /\ last.kw.nodelist = Some(<<S("C"), S("A")>>)
    /\ last.pos[S("C")] # last.pos[S("A")]
    /\ last.ret.coll.pts = <<last.pos[S("C")], last.pos[S("A")]>>

\* C9: after a successful drawAll every edge primitive on the axes is lower in
\* the stacking order (1) than every node collection (2), directed or not,
\* although the edge primitive is added after the node collection
C9_EdgesBelowNodes ==
    (last.op \in {"networkx", "draw"} /\ last.err = "none") =>
        \A i, j \in 1..Len(ax.collections) :
            (IsEdgeColl(ax.collections[i]) /\ ax.collections[j].kind = "scatter") =>
                /\ ax.collections[i].zorder < ax.collections[j].zorder
                /\ ax.collections[i].zorder = 1
                /\ ax.collections[j].zorder = 2
                /\ j < i

\* C9 happens: drawAll on a directed graph has left a node collection and an
\* arrow primitive on axes that held another artist
C9_Witness ==
    /\ last.op = "networkx"
    /\ last.err = "none"
    /\ last.with_labels
    /\ G.directed
    /\ Len(last.pre.collections) > 0
    /\ \E i, j \in 1..Len(ax.collections) :
          ax.collections[i].kind = "poly" /\ ax.collections[j].kind = "scatter"

\* C10: a drawEdges that fails on a missing position has not touched the axes:
\* no primitive added, no data bounds update, whichever edge misses an endpoint
C10_EdgesAllOrNothing ==
    (last.op = "edges" /\ last.err = "KeyError") => ax = last.pre

\* C10 happens: the first edge has both positions, the second one misses an
\* endpoint, and the axes held an artist before
C10_Witness ==
    /\ last.op = "edges"
    /\ last.err = "KeyError"
    /\ Len(LastEdgeList) = 2
    /\ {LastEdgeList[1][1], LastEdgeList[1][2]} \subseteq DOMAIN last.pos
    /\ LastEdgeList[2][2] \notin DOMAIN last.pos
    /\ Len(last.pre.collections) > 0

====
